---- MODULE Spec2Model ----
(***************************************************************************)
(* Model of the Air Quality GeoAPI query service (app/main.py).            *)
(*                                                                         *)
(* The datastore is two tables, measurements and stations.  Each endpoint  *)
(* is one action: it builds its SQL from the query parameters, opens a     *)
(* connection, executes, closes the connection and shapes the rows.        *)
(* SQL semantics that the statement leaves open (order among equal sort    *)
(* keys, which of several equally recent rows DISTINCT ON keeps, row order *)
(* without ORDER BY, JSON_AGG order) are nondeterministic choices.         *)
(*                                                                         *)
(* Optional values (Python None, SQL NULL) are <<>>, a present value v is  *)
(* <<v>>.  Timestamps and the clock are whole hours.                       *)
(***************************************************************************)
EXTENDS Integers, Sequences, FiniteSets, TLC

VARIABLES
    measurements,   \* the measurements table
    stations,       \* the stations table
    now,            \* the current instant
    req,            \* the last request: endpoint, parameters, instant of the call
    resp,           \* the response to it
    conn,           \* connections the last request acquired and released
    held,           \* connections open after the last request ended
    repeat_of       \* instant of the previous call when the last request repeated
                    \* its endpoint and parameters, else -1

vars == <<measurements, stations, now, req, resp, conn, held, repeat_of>>

----------------------------------------------------------------------------
(* Bounds of the model *)

MaxRows == 3        \* rows in the measurements table
MaxTs == 3          \* stored timestamps are 1..MaxTs
MaxNow == 4         \* the clock runs from MaxTs to MaxNow

(* Program constants *)

LimitMin == 1
LimitMax == 500
OffsetMin == 0
HoursMin == 1
HoursMax == 168
NotFoundStatus == 404
NotFoundDetail == "No measurements for given station/pollutant"

----------------------------------------------------------------------------
(* Optional values *)

None == <<>>
Some(v) == <<v>>

\* Python truthiness of an Optional[str]: None and "" are both false.
Truthy(o) == o # None /\ o[1] # ""

----------------------------------------------------------------------------
(* Data domains *)

StationIds == {"S1", "S2"}
Pollutants == {"no2", "pm25"}
CountryOf == [s \in StationIds |-> IF s = "S1" THEN "NL" ELSE "BE"]
Timestamps == 1..MaxTs

\* lexicographic rank of the strings that occur as station ids / pollutants
StrRank(s) ==
    CASE s = "S1" -> 1
      [] s = "S2" -> 2
      [] s = "no2" -> 1
      [] s = "pm25" -> 2
      [] OTHER -> 0

MeasurementRows ==
    { [station_id |-> s, pollutant |-> p, country |-> CountryOf[s], ts |-> t] :
        s \in StationIds, p \in Pollutants, t \in Timestamps }

MeasurementTables == { T \in SUBSET MeasurementRows : Cardinality(T) <= MaxRows }

Coords == { [lat |-> None, lon |-> Some(4)],
            [lat |-> Some(52), lon |-> None],
            [lat |-> None, lon |-> None],
            [lat |-> Some(52), lon |-> Some(4)] }

StationRow(s, c) == [station_id |-> s, country |-> CountryOf[s], lat |-> c.lat, lon |-> c.lon]

\* station_id is the primary key: at most one row per station id
StationTables ==
    { {StationRow("S2", [lat |-> Some(51), lon |-> Some(5)])} \cup X :
        X \in {{}} \cup { {StationRow("S1", c)} : c \in Coords } }

----------------------------------------------------------------------------
(* SQL building blocks *)

RECURSIVE SeqsOf(_)
\* every arrangement of the rows of a result set
SeqsOf(S) ==
    IF S = {} THEN {<<>>}
    ELSE UNION { { <<x>> \o t : t \in SeqsOf(S \ {x}) } : x \in S }

\* (mutation: the ORDER BY clause is missing)
OrderByTsDescDropped(S) == SeqsOf(S)

\* ORDER BY ts DESC: any arrangement with non-increasing ts
OrderByTsDesc(S) ==
    { q \in SeqsOf(S) : \A i \in 1..Len(q) : \A j \in i..Len(q) : q[i].ts >= q[j].ts }

\* ORDER BY ts: any arrangement with non-decreasing ts
OrderByTsAsc(S) ==
    { q \in SeqsOf(S) : \A i \in 1..Len(q) : \A j \in i..Len(q) : q[i].ts <= q[j].ts }

\* LIMIT lim OFFSET off
LimitOffset(q, lim, off) ==
    IF off >= Len(q) THEN <<>>
    ELSE SubSeq(q, off + 1, IF off + lim <= Len(q) THEN off + lim ELSE Len(q))

\* DISTINCT ON (station_id) ... ORDER BY station_id, ts DESC:
\* one row per station, a row of greatest ts among the station's rows
DistinctOnStation(S) ==
    { R \in SUBSET S :
        /\ \A m \in S : \E r \in R : r.station_id = m.station_id
        /\ \A r1, r2 \in R : r1.station_id = r2.station_id => r1 = r2
        /\ \A r \in R : \A m \in S : m.station_id = r.station_id => m.ts <= r.ts }

\* DISTINCT ON (station_id, pollutant) ... ORDER BY station_id, pollutant, ts DESC
DistinctOnStationPollutant(S) ==
    { R \in SUBSET S :
        /\ \A m \in S : \E r \in R :
              r.station_id = m.station_id /\ r.pollutant = m.pollutant
        /\ \A r1, r2 \in R :
              (r1.station_id = r2.station_id /\ r1.pollutant = r2.pollutant) => r1 = r2
        /\ \A r \in R : \A m \in S :
              (m.station_id = r.station_id /\ m.pollutant = r.pollutant) => m.ts <= r.ts }

\* ORDER BY station_id, pollutant of a DISTINCT ON (station_id, pollutant) result
OrderByStationPollutant(R) ==
    { q \in SeqsOf(R) : \A i \in 1..Len(q) : \A j \in i..Len(q) :
        \/ StrRank(q[i].station_id) < StrRank(q[j].station_id)
        \/ /\ q[i].station_id = q[j].station_id
           /\ StrRank(q[i].pollutant) <= StrRank(q[j].pollutant) }

----------------------------------------------------------------------------
(* Connections *)

Faults == {"none", "connect_error", "query_error"}

\* psycopg.connect: one connection unless the connect itself fails
Connect(fault) == IF fault = "connect_error" THEN 0 ELSE 1

\* (mutation: the connection is closed only when the block ends normally)
WithExitLeaky(fault) == IF fault = "none" THEN 1 ELSE 0

\* leaving the "with _get_conn() as conn" block closes the connection,
\* whether the block ends normally or by an exception of execute/fetchall
WithExit(fault) == IF fault = "connect_error" THEN 0 ELSE 1

ConnUse(fault) == [acquired |-> Connect(fault), released |-> WithExit(fault)]

ServerError == [status |-> 500, detail |-> "Internal Server Error", body |-> <<>>]

Ok(body) == [status |-> 200, detail |-> "", body |-> body]

NoArgs ==
    [limit |-> 0, offset |-> 0, station_id |-> None, country |-> None,
     pollutant |-> None, latest_per_station |-> FALSE, hours |-> 0]

\* the request being served, and whether it repeats the one before it
Request(ep, args) ==
    /\ req' = [ep |-> ep, args |-> args, at |-> now]
    /\ repeat_of' = IF req.ep = ep /\ req.args = args THEN req.at ELSE -1

----------------------------------------------------------------------------
(* GET /health *)

health ==
    /\ Request("health",
               NoArgs)
    /\ resp' = Ok(<<[status |-> "ok"]>>)
    /\ conn' = [acquired |-> 0, released |-> 0]
    /\ UNCHANGED <<measurements, stations, now, held>>

----------------------------------------------------------------------------
(* GET /measurements *)

\* (mutation: the country filter is not appended to the WHERE clause)
MeasurementsWhereNoCountry(m, station_id, country, pollutant) ==
    /\ Truthy(station_id) => m.station_id = station_id[1]
    /\ Truthy(pollutant) => m.pollutant = pollutant[1]

\* the WHERE clause: the filters whose parameter is truthy, AND-ed
MeasurementsWhere(m, station_id, country, pollutant) ==
    /\ Truthy(station_id) => m.station_id = station_id[1]
    /\ Truthy(country) => m.country = country[1]
    /\ Truthy(pollutant) => m.pollutant = pollutant[1]

\* the statement that reaches cur.execute: both branches of the
\* latest_per_station test assign sql, then sql is assigned the plain query
MeasurementsSql(latest_per_station) ==
    LET branch == IF latest_per_station THEN "distinct_on" ELSE "plain"
        sql == "plain"
    IN sql

\* the result sets cur.fetchall may deliver for a statement
MeasurementsFetch(sql, station_id, country, pollutant, limit, offset) ==
    LET filtered == { m \in measurements :
                        MeasurementsWhere(m, station_id, country, pollutant) }
    IN IF sql = "distinct_on"
       THEN { LimitOffset(q, limit, offset) :
                q \in UNION { OrderByStationPollutant(R) :
                                R \in DistinctOnStationPollutant(filtered) } }
       ELSE { LimitOffset(q, limit, offset) : q \in OrderByTsDesc(filtered) }

\* cursor rows, by column position
MeasurementCols(m) == <<m.station_id, m.pollutant, m.country, m.ts>>

\* Measurement(station_id=row[0], pollutant=row[1], ..., timestamp=row[9])
MeasurementOf(row) ==
    [station_id |-> row[1], pollutant |-> row[2], country |-> row[3], timestamp |-> row[4]]

list_measurements(limit, offset, station_id, country, pollutant, latest_per_station, fault) ==
    /\ limit >= LimitMin /\ limit <= LimitMax /\ offset >= OffsetMin
    /\ Request("list_measurements",
               [NoArgs EXCEPT !.limit = limit, !.offset = offset,
                           !.station_id = station_id, !.country = country,
                           !.pollutant = pollutant,
                           !.latest_per_station = latest_per_station])
    /\ conn' = ConnUse(fault)
    /\ held' = held + Connect(fault) - WithExit(fault)
    /\ IF fault # "none"
       THEN resp' = ServerError
       ELSE \E q \in MeasurementsFetch(MeasurementsSql(latest_per_station),
                                       station_id, country, pollutant, limit, offset) :
              resp' = Ok([i \in 1..Len(q) |-> MeasurementOf(MeasurementCols(q[i]))])
    /\ UNCHANGED <<measurements, stations, now>>

----------------------------------------------------------------------------
(* GET /measurements/timeseries *)

\* since = datetime.now(timezone.utc) - timedelta(hours=hours)
Since(hours) == now - hours

\* (mutation: the window excludes its boundary instant)
TimeseriesFetchStrict(station_id, pollutant, since) ==
    OrderByTsAsc({ m \in measurements :
                     /\ m.station_id = station_id
                     /\ m.pollutant = pollutant
                     /\ m.ts > since })

\* (mutation: the ORDER BY clause is missing)
TimeseriesFetchUnordered(station_id, pollutant, since) ==
    SeqsOf({ m \in measurements :
               /\ m.station_id = station_id
               /\ m.pollutant = pollutant
               /\ m.ts >= since })

\* WHERE station_id = .. AND pollutant = .. AND ts >= since ORDER BY ts
TimeseriesFetch(station_id, pollutant, since) ==
    OrderByTsAsc({ m \in measurements :
                     /\ m.station_id = station_id
                     /\ m.pollutant = pollutant
                     /\ m.ts >= since })

\* cursor rows, by column position
TimePointCols(m) == <<m.station_id, m.pollutant, m.country, m.ts>>

\* TimePoint(station_id=row[0], pollutant=row[1], ..., timestamp=row[7])
TimePointOf(row) ==
    [station_id |-> row[1], pollutant |-> row[2], country |-> row[3], timestamp |-> row[4]]

\* (mutation: an empty result is returned as an empty list)
TimeseriesResultEmptyOk(rows) ==
    [status |-> 200, detail |-> "",
     body |-> [i \in 1..Len(rows) |->
                 [station_id |-> rows[i].station_id, pollutant |-> rows[i].pollutant,
                  country |-> rows[i].country, timestamp |-> rows[i].ts]]]

\* "if not rows: raise HTTPException(404, ...)", else the list of TimePoint
TimeseriesResult(rows) ==
    IF rows = <<>>
    THEN [status |-> NotFoundStatus, detail |-> NotFoundDetail, body |-> <<>>]
    ELSE Ok([i \in 1..Len(rows) |-> TimePointOf(TimePointCols(rows[i]))])

measurements_timeseries(station_id, pollutant, hours, fault) ==
    /\ hours >= HoursMin /\ hours <= HoursMax
    /\ Request("measurements_timeseries",
               [NoArgs EXCEPT !.station_id = Some(station_id),
                           !.pollutant = Some(pollutant), !.hours = hours])
    /\ conn' = ConnUse(fault)
    /\ held' = held + Connect(fault) - WithExit(fault)
    /\ IF fault # "none"
       THEN resp' = ServerError
       ELSE \E rows \in TimeseriesFetch(station_id, pollutant, Since(hours)) :
              resp' = TimeseriesResult(rows)
    /\ UNCHANGED <<measurements, stations, now>>

----------------------------------------------------------------------------
(* GET /stations *)

\* meas_where: "m.pollutant = %(pollutant)s" when pollutant is truthy
MeasWhere(m, pollutant) == Truthy(pollutant) => m.pollutant = pollutant[1]

\* (mutation: the IS NOT NULL conditions are missing)
StationWhereNullable(s, country) == Truthy(country) => s.country = country[1]

\* station_where: lat and lon not null, and the country when it is truthy
StationWhere(s, country) ==
    /\ s.lat # None
    /\ s.lon # None
    /\ Truthy(country) => s.country = country[1]

\* (mutation: DISTINCT ON (station_id, pollutant), as in /stations_wkt)
StationsLatestMeasPerPollutant(pollutant) ==
    DistinctOnStationPollutant({ m \in measurements : MeasWhere(m, pollutant) })

\* WITH latest_meas AS (SELECT DISTINCT ON (station_id) .. FROM measurements m
\* {meas_where} ORDER BY station_id, ts DESC)
StationsLatestMeas(pollutant) ==
    DistinctOnStation({ m \in measurements : MeasWhere(m, pollutant) })

\* SELECT s.station_id, s.country, s.lat, s.lon, lm.pollutant, lm.ts
StationsCols(s, lm) == <<s.station_id, s.country, s.lat, s.lon, lm.pollutant, lm.ts>>

\* FROM stations s JOIN latest_meas lm ON lm.station_id = s.station_id {station_where}
StationsJoin(latest_meas, country) ==
    { StationsCols(p[1], p[2]) :
        p \in { x \in stations \X latest_meas :
                  /\ x[2].station_id = x[1].station_id
                  /\ StationWhere(x[1], country) } }

\* the result sets cur.fetchall may deliver (no ORDER BY: any row order)
StationsFetch(country, pollutant) ==
    UNION { SeqsOf(StationsJoin(latest_meas, country)) :
            latest_meas \in StationsLatestMeas(pollutant) }

\* one GeoJSON Feature per cursor row
FeatureOf(row) ==
    [type |-> "Feature",
     geometry |-> [type |-> "Point", coordinates |-> <<row[4], row[3]>>],
     properties |-> [station_id |-> row[1], country |-> row[2],
                     pollutant |-> row[5], timestamp |-> row[6]]]

list_stations(country, pollutant, fault) ==
    /\ Request("list_stations",
               [NoArgs EXCEPT !.country = country, !.pollutant = pollutant])
    /\ conn' = ConnUse(fault)
    /\ held' = held + Connect(fault) - WithExit(fault)
    /\ IF fault # "none"
       THEN resp' = ServerError
       ELSE \E rows \in StationsFetch(country, pollutant) :
              resp' = Ok([i \in 1..Len(rows) |-> FeatureOf(rows[i])])
    /\ UNCHANGED <<measurements, stations, now>>

----------------------------------------------------------------------------
(* GET /stations_wkt *)

\* (mutation: DISTINCT ON (station_id), as in /stations)
WktLatestMeasPerStation(pollutant) ==
    DistinctOnStation({ m \in measurements : MeasWhere(m, pollutant) })

\* WITH latest_meas AS (SELECT DISTINCT ON (station_id, pollutant) .. FROM measurements m
\* {meas_where} ORDER BY station_id, pollutant, ts DESC)
WktLatestMeas(pollutant) ==
    DistinctOnStationPollutant({ m \in measurements : MeasWhere(m, pollutant) })

\* JSON_BUILD_OBJECT('pollutant', lm.pollutant, .., 'timestamp', lm.ts)
JsonBuildObject(lm) == [pollutant |-> lm.pollutant, timestamp |-> lm.ts]

\* JSON_AGG over the latest_meas rows joined to station s, in any order
JsonAgg(s, latest_meas) ==
    SeqsOf({ JsonBuildObject(lm) : lm \in { y \in latest_meas : y.station_id = s.station_id } })

\* the stations left by the join and {station_where}: the groups of GROUP BY
WktGroups(latest_meas, country) ==
    { s \in stations :
        /\ StationWhere(s, country)
        /\ \E lm \in latest_meas : lm.station_id = s.station_id }

\* SELECT s.station_id, s.country, s.lat, s.lon, JSON_AGG(..) AS measurements
WktCols(s, agg) == <<s.station_id, s.country, s.lat, s.lon, agg>>

\* the result sets cur.fetchall may deliver (no ORDER BY: any row order)
WktFetch(country, pollutant) ==
    UNION { UNION { SeqsOf({ WktCols(s, agg[s]) : s \in WktGroups(latest_meas, country) }) :
                    agg \in { f \in [ WktGroups(latest_meas, country) ->
                                        UNION { JsonAgg(s, latest_meas) : s \in stations } ] :
                                \A s \in DOMAIN f : f[s] \in JsonAgg(s, latest_meas) } } :
            latest_meas \in WktLatestMeas(pollutant) }

\* str() of a float, or of None
FormatCoord(c) == IF c = None THEN "None" ELSE ToString(c[1])

\* f"POINT({lon} {lat})"
PointWkt(lon, lat) == "POINT(" \o FormatCoord(lon) \o " " \o FormatCoord(lat) \o ")"

\* one entry of a station's "measurements" list
WktMeasurementOf(m) == [pollutant |-> m.pollutant, timestamp |-> m.timestamp]

\* one element of the response
WktEntryOf(row) ==
    [wkt |-> PointWkt(row[4], row[3]),
     station_id |-> row[1],
     country |-> row[2],
     measurements |-> [i \in 1..Len(row[5]) |-> WktMeasurementOf(row[5][i])]]

RECURSIVE WktResult(_)
\* "for row in rows: if lon is None or lat is None: continue; result.append(..)"
WktResult(rows) ==
    IF rows = <<>> THEN <<>>
    ELSE IF Head(rows)[4] = None \/ Head(rows)[3] = None
         THEN WktResult(Tail(rows))
         ELSE <<WktEntryOf(Head(rows))>> \o WktResult(Tail(rows))

list_stations_wkt(country, pollutant, fault) ==
    /\ Request("list_stations_wkt",
               [NoArgs EXCEPT !.country = country, !.pollutant = pollutant])
    /\ conn' = ConnUse(fault)
    /\ held' = held + Connect(fault) - WithExit(fault)
    /\ IF fault # "none"
       THEN resp' = ServerError
       ELSE \E rows \in WktFetch(country, pollutant) :
              resp' = Ok(WktResult(rows))
    /\ UNCHANGED <<measurements, stations, now>>

----------------------------------------------------------------------------
(* The clock *)

Tick ==
    /\ now < MaxNow
    /\ now' = now + 1
    /\ UNCHANGED <<measurements, stations, req, resp, conn, held, repeat_of>>

----------------------------------------------------------------------------
(* Inputs *)

\* an optional string parameter: absent, empty, or one of the values S
OptStrings(S) == {None, Some("")} \cup { Some(v) : v \in S }

LimitInputs == {1, 2}
OffsetInputs == {0, 1}
HoursInputs == {1, 2, 3}

DefaultStations ==
    { StationRow("S1", [lat |-> Some(52), lon |-> Some(4)]),
      StationRow("S2", [lat |-> Some(51), lon |-> Some(5)]) }

InitRequest ==
    /\ now = MaxTs
    /\ req = [ep |-> "none", args |-> NoArgs, at |-> now]
    /\ resp = Ok(<<>>)
    /\ conn = [acquired |-> 0, released |-> 0]
    /\ held = 0
    /\ repeat_of = -1

Init ==
    /\ measurements \in MeasurementTables
    /\ stations = DefaultStations
    /\ InitRequest

InitStations ==
    /\ measurements \in MeasurementTables
    /\ stations \in StationTables
    /\ InitRequest

\* no request has been served yet
FirstRequest == req.ep = "none"

(* Handlers read nothing that an earlier request left behind, so the
   specifications of single endpoints follow the first request after start
   over every table content and parameter combination; Spec follows
   arbitrary sequences of requests. *)

(* /measurements *)
NextMeasurements ==
    \E limit \in LimitInputs, offset \in OffsetInputs,
       station_id \in OptStrings({"S1"}), country \in OptStrings({"NL"}),
       pollutant \in OptStrings({"pm25"}), latest \in BOOLEAN :
       /\ FirstRequest
       /\ list_measurements(limit, offset, station_id, country, pollutant, latest, "none")

SpecMeasurements == Init /\ [][NextMeasurements]_vars

(* /measurements/timeseries under a running clock *)
NextTimeseries ==
    \/ \E station_id \in StationIds, pollutant \in Pollutants, hours \in HoursInputs,
          fault \in Faults :
          /\ FirstRequest
          /\ measurements_timeseries(station_id, pollutant, hours, fault)
    \/ Tick

SpecTimeseries == Init /\ [][NextTimeseries]_vars

(* /stations and /stations_wkt *)
NextStations ==
    \/ \E country \in OptStrings({"NL"}), pollutant \in OptStrings({"pm25"}),
          fault \in Faults :
          /\ FirstRequest
          /\ list_stations(country, pollutant, fault)
    \/ \E country \in OptStrings({"NL"}), pollutant \in OptStrings({"pm25"}),
          fault \in Faults :
          /\ FirstRequest
          /\ list_stations_wkt(country, pollutant, fault)

SpecStations == InitStations /\ [][NextStations]_vars

(* every endpoint, datastore faults and a running clock *)
Next ==
    \/ health
    \/ \E fault \in Faults :
          list_measurements(2, 0, None, None, None, FALSE, fault)
    \/ \E hours \in {1, 2}, fault \in Faults :
          measurements_timeseries("S1", "pm25", hours, fault)
    \/ \E fault \in Faults : list_stations(None, None, fault)
    \/ \E fault \in Faults : list_stations_wkt(None, None, fault)
    \/ Tick

Spec == Init /\ [][Next]_vars

----------------------------------------------------------------------------
(* Properties *)

\* the rows of a response body, as a set
Rows(body) == { body[i] : i \in 1..Len(body) }

\* no row occurs twice in a response body
NoRepeat(body) == \A i, j \in 1..Len(body) : body[i] = body[j] => i = j

Succeeded(ep) == req.ep = ep /\ resp.status = 200

(* ---- C1 ---- *)

\* the stored rows of the requested station and pollutant inside the window
\* that ended at the instant of the call
C1_InWindow ==
    { m \in measurements :
        /\ m.station_id = req.args.station_id[1]
        /\ m.pollutant = req.args.pollutant[1]
        /\ m.ts >= req.at - req.args.hours }

\* C1: a successful measurements_timeseries response holds exactly the stored
\* measurements of the requested station_id and pollutant whose timestamp is
\* >= (now - hours), each once, oldest first.
C1_TimeseriesExactWindowAscending ==
    Succeeded("measurements_timeseries") =>
        /\ Rows(resp.body) =
             { [station_id |-> m.station_id, pollutant |-> m.pollutant,
                country |-> m.country, timestamp |-> m.ts] : m \in C1_InWindow }
        /\ Len(resp.body) = Cardinality(C1_InWindow)
        /\ \A i, j \in 1..Len(resp.body) :
             i < j => resp.body[i].timestamp <= resp.body[j].timestamp

\* three rows of one station and pollutant, the oldest outside the window:
\* the two newer ones are returned, older first
C1_Witness ==
    /\ Succeeded("measurements_timeseries")
    /\ Len(resp.body) = 2
    /\ resp.body[1].timestamp < resp.body[2].timestamp
    /\ \E m \in measurements :
         /\ m.station_id = req.args.station_id[1]
         /\ m.pollutant = req.args.pollutant[1]
         /\ m.ts < req.at - req.args.hours

(* ---- C2 ---- *)

\* C2: when no stored measurement matches the station_id, pollutant and window
\* of a measurements_timeseries call that the datastore answered, the call fails
\* with 404 and the detail "No measurements for given station/pollutant"; a
\* successful response never has an empty array.
C2_TimeseriesEmptyIsNotFound ==
    req.ep = "measurements_timeseries" =>
        /\ (C1_InWindow = {} /\ resp.status # 500) =>
              /\ resp.status = 404
              /\ resp.detail = "No measurements for given station/pollutant"
              /\ resp.body = <<>>
        /\ resp.status = 200 => resp.body # <<>>

\* the station and pollutant have rows, but all of them are older than the window
C2_Witness ==
    /\ req.ep = "measurements_timeseries"
    /\ resp.status = 404
    /\ \E m \in measurements :
         /\ m.station_id = req.args.station_id[1]
         /\ m.pollutant = req.args.pollutant[1]
         /\ m.ts < req.at - req.args.hours

(* ---- C3 ---- *)

\* C3: a successful list_measurements response to a call without
\* latest_per_station has at most limit rows, in descending timestamp order.
C3_ListSortedDescWithinLimit ==
    (Succeeded("list_measurements") /\ ~req.args.latest_per_station) =>
        /\ Len(resp.body) <= req.args.limit
        /\ \A i, j \in 1..Len(resp.body) :
             i < j => resp.body[i].timestamp >= resp.body[j].timestamp

\* more rows are stored than the limit admits; two rows of different age return
C3_Witness ==
    /\ Succeeded("list_measurements")
    /\ ~req.args.latest_per_station
    /\ req.args.limit = 2
    /\ Cardinality(measurements) > 2
    /\ req.args.station_id = None /\ req.args.country = None /\ req.args.pollutant = None
    /\ Len(resp.body) = 2
    /\ resp.body[1].timestamp > resp.body[2].timestamp

(* ---- C4 ---- *)

\* C4: a successful list_measurements response to a call with
\* latest_per_station = true never has two rows with the same
\* (station_id, pollutant).
C4_LatestPerStationOneRowPerPair ==
    (Succeeded("list_measurements") /\ req.args.latest_per_station) =>
        \A i, j \in 1..Len(resp.body) :
            (/\ resp.body[i].station_id = resp.body[j].station_id
             /\ resp.body[i].pollutant = resp.body[j].pollutant) => i = j

(* ---- C10 ---- *)

\* the value a row has in the column a filter compares
C10_Column(m, k) ==
    CASE k = "station_id" -> m.station_id
      [] k = "country" -> m.country
      [] k = "pollutant" -> m.pollutant

C10_FilterNames == {"station_id", "country", "pollutant"}

\* the response body is the slice [offset, offset+limit) of some
\* timestamp-descending arrangement of the rows E
C10_IsSlice(E) ==
    LET body == resp.body
        n == Len(body)
        off == req.args.offset
        lim == req.args.limit
        E_objs == { [station_id |-> m.station_id, pollutant |-> m.pollutant,
                     country |-> m.country, timestamp |-> m.ts] : m \in E }
        rest == E_objs \ Rows(body)
        avail == IF Cardinality(E) > off THEN Cardinality(E) - off ELSE 0
    IN /\ Rows(body) \subseteq E_objs
       /\ NoRepeat(body)
       /\ n = (IF avail < lim THEN avail ELSE lim)
       /\ \A i, j \in 1..n : i < j => body[i].timestamp >= body[j].timestamp
       /\ n > 0 =>
            /\ \A m \in rest : m.timestamp >= body[1].timestamp
                               \/ m.timestamp <= body[n].timestamp
            /\ Cardinality({ m \in rest : m.timestamp > body[n].timestamp }) <= off
            /\ Cardinality({ m \in rest : m.timestamp >= body[1].timestamp }) >= off

\* C10 as stated: the response is the slice [offset, offset+limit) of the
\* timestamp-descending list of the stored measurements that equal every
\* filter value that was supplied (a filter is supplied when it is not None).
C10_SuppliedFilterNeverIgnored ==
    (Succeeded("list_measurements") /\ ~req.args.latest_per_station) =>
        C10_IsSlice({ m \in measurements :
                        \A k \in C10_FilterNames :
                            req.args[k] # None => C10_Column(m, k) = req.args[k][1] })

\* C10 amended: the response is the slice [offset, offset+limit) of the
\* timestamp-descending list of the stored measurements that equal every
\* filter value that was supplied and is not the empty string; an absent or
\* empty filter places no restriction on the rows.
C10_NonEmptyFilterNeverIgnored ==
    (Succeeded("list_measurements") /\ ~req.args.latest_per_station) =>
        C10_IsSlice({ m \in measurements :
                        \A k \in C10_FilterNames :
                            (req.args[k] # None /\ req.args[k] # Some("")) =>
                                C10_Column(m, k) = req.args[k][1] })

\* two non-empty filters, a stored row that fails one of them, and a page
\* that starts behind the first matching row
C10_Witness ==
    /\ Succeeded("list_measurements")
    /\ ~req.args.latest_per_station
    /\ req.args.station_id = None
    /\ req.args.country = Some("NL") /\ req.args.pollutant = Some("pm25")
    /\ req.args.offset = 1
    /\ Len(resp.body) = 1
    /\ \E m \in measurements : m.country = "NL" /\ m.pollutant # "pm25"
    /\ \E m \in measurements : m.country = "NL" /\ m.pollutant = "pm25"
                               /\ m.ts > resp.body[1].timestamp

(* ---- C5 ---- *)

\* the stored readings of a station
C5_Readings(sid) == { m \in measurements : m.station_id = sid }

\* the stations that /stations_wkt has to list: coordinates present, the
\* country filter (if any) met, at least one reading stored
C5_Listed ==
    { s \in stations :
        /\ s.lat # None /\ s.lon # None
        /\ (req.args.country \in {None, Some("")} \/ s.country = req.args.country[1])
        /\ C5_Readings(s.station_id) # {} }

\* C5: with no pollutant filter given, a successful list_stations_wkt response
\* has one entry for each station with coordinates (and readings, and the
\* requested country), and the entry's measurements array has exactly one
\* element per distinct pollutant of the station, carrying the greatest
\* timestamp among the station's readings of that pollutant.
C5_WktOneLatestEntryPerPollutant ==
    (Succeeded("list_stations_wkt") /\ req.args.pollutant = None) =>
        /\ { e.station_id : e \in Rows(resp.body) } = { s.station_id : s \in C5_Listed }
        /\ \A i, j \in 1..Len(resp.body) :
             resp.body[i].station_id = resp.body[j].station_id => i = j
        /\ \A e \in Rows(resp.body) :
             LET mine == C5_Readings(e.station_id)
                 pollutants == { m.pollutant : m \in mine }
             IN /\ Len(e.measurements) = Cardinality(pollutants)
                /\ { x.pollutant : x \in Rows(e.measurements) } = pollutants
                /\ \A x \in Rows(e.measurements) :
                     /\ \E m \in mine : m.pollutant = x.pollutant /\ m.ts = x.timestamp
                     /\ \A m \in mine : m.pollutant = x.pollutant => m.ts <= x.timestamp

\* a station with two pollutants, one of them read twice: two entries, the
\* older reading left out
C5_Witness ==
    /\ Succeeded("list_stations_wkt")
    /\ req.args.pollutant = None
    /\ \E e \in Rows(resp.body) :
         /\ Len(e.measurements) = 2
         /\ e.measurements[1].pollutant # e.measurements[2].pollutant
         /\ Cardinality(C5_Readings(e.station_id)) = 3

(* ---- C6 ---- *)

\* every Feature of the response shows a most recent reading of its station
\* among the readings Ranked, and no station has two Features
C6_OneLatestFeaturePerStation(Ranked) ==
    /\ \A i, j \in 1..Len(resp.body) :
         resp.body[i].properties.station_id = resp.body[j].properties.station_id => i = j
    /\ \A f \in Rows(resp.body) :
         LET mine == { m \in Ranked : m.station_id = f.properties.station_id }
         IN /\ \E m \in mine : /\ m.pollutant = f.properties.pollutant
                               /\ m.ts = f.properties.timestamp
            /\ \A m \in mine : m.ts <= f.properties.timestamp

\* C6 as stated: list_stations returns at most one Feature per station, showing
\* the station's most recent reading across all pollutants, or across only the
\* given pollutant when a pollutant filter is supplied (is not None).
C6_StationsSingleLatest ==
    Succeeded("list_stations") =>
        C6_OneLatestFeaturePerStation(
            { m \in measurements :
                req.args.pollutant # None => m.pollutant = req.args.pollutant[1] })

\* C6 amended: list_stations returns at most one Feature per station, showing
\* the station's most recent reading across all pollutants, or across only the
\* given pollutant when a non-empty pollutant filter is supplied; an empty
\* pollutant filter ranks across all pollutants.
C6_StationsSingleLatestNonEmptyFilter ==
    Succeeded("list_stations") =>
        C6_OneLatestFeaturePerStation(
            { m \in measurements :
                (req.args.pollutant # None /\ req.args.pollutant # Some("")) =>
                    m.pollutant = req.args.pollutant[1] })

\* a station with readings of two pollutants gets one Feature, the newer reading
C6_Witness ==
    /\ Succeeded("list_stations")
    /\ req.args.pollutant = None
    /\ \E f \in Rows(resp.body) :
         \E m \in measurements :
            /\ m.station_id = f.properties.station_id
            /\ m.pollutant # f.properties.pollutant
            /\ m.ts < f.properties.timestamp

(* ---- C7 ---- *)

\* the WKT strings that a null lon or lat would produce
C7_NullWkt ==
    { PointWkt(lon, lat) : lon \in {None} \cup { s.lon : s \in stations },
                           lat \in {None} }
    \cup { PointWkt(lon, lat) : lon \in {None},
                               lat \in {None} \cup { s.lat : s \in stations } }

\* the ids of the stations whose lat or lon is null
C7_NullStations == { s.station_id : s \in { x \in stations : x.lat = None \/ x.lon = None } }

\* C7: no station whose lat or lon is null appears in the output of
\* list_stations or list_stations_wkt: no Feature has a null coordinate and
\* no WKT entry is built from a null lon or lat.
C7_NoNullCoordinates ==
    /\ Succeeded("list_stations") =>
         \A f \in Rows(resp.body) :
            /\ f.geometry.coordinates[1] # None
            /\ f.geometry.coordinates[2] # None
            /\ f.properties.station_id \notin C7_NullStations
    /\ Succeeded("list_stations_wkt") =>
         \A e \in Rows(resp.body) :
            /\ e.wkt \notin C7_NullWkt
            /\ e.station_id \notin C7_NullStations

\* a station without latitude has readings and meets the filters; the
\* response lists another station and not this one
C7_Witness ==
    /\ Succeeded("list_stations")
    /\ req.args.country = None /\ req.args.pollutant = None
    /\ resp.body # <<>>
    /\ \E s \in stations :
         /\ s.lat = None /\ s.lon # None
         /\ \E m \in measurements : m.station_id = s.station_id

(* ---- C8 ---- *)

\* two responses of one endpoint that differ at most in the arrangement of
\* rows with equal sort keys: at each position of a sorted response the rows
\* are the same or tied in ts (a tie may also decide which of the tied rows a
\* page ends with); for the station endpoints, whose statements have no
\* ORDER BY, the row order and the choice among equally recent readings are free
C8_SameUpToTies(ep, r1, r2) ==
    /\ r1.status = r2.status
    /\ r1.detail = r2.detail
    /\ Len(r1.body) = Len(r2.body)
    /\ CASE ep \in {"list_measurements", "measurements_timeseries"} ->
              \A i \in 1..Len(r1.body) :
                 \/ r1.body[i] = r2.body[i]
                 \/ r1.body[i].timestamp = r2.body[i].timestamp
         [] ep = "list_stations" ->
              \A r \in {<<r1, r2>>, <<r2, r1>>} :
                 \A f \in Rows(r[1].body) : \E g \in Rows(r[2].body) :
                    /\ f.geometry = g.geometry
                    /\ f.properties.station_id = g.properties.station_id
                    /\ f.properties.timestamp = g.properties.timestamp
         [] ep = "list_stations_wkt" ->
              \A r \in {<<r1, r2>>, <<r2, r1>>} :
                 \A e \in Rows(r[1].body) : \E g \in Rows(r[2].body) :
                    /\ e.wkt = g.wkt
                    /\ e.station_id = g.station_id
                    /\ Rows(e.measurements) = Rows(g.measurements)
         [] OTHER -> r1.body = r2.body

\* this step serves a request with the endpoint and parameters of the request
\* before it, and the datastore answered both
C8_Repeats ==
    /\ req.ep # "none"
    /\ req'.ep = req.ep
    /\ req'.args = req.args
    /\ resp.status # 500
    /\ resp'.status # 500

\* the rows a timeseries call with the parameters of req has in its window
\* when made at instant t
C8_Window(t) ==
    { m \in measurements :
        /\ m.station_id = req.args.station_id[1]
        /\ m.pollutant = req.args.pollutant[1]
        /\ m.ts >= t - req.args.hours }

\* C8 as stated: a call that repeats the endpoint and parameters of the call
\* before it, at the same or a later instant, gets the same response up to the
\* order of rows with equal sort keys.
C8_RepeatSameResponse ==
    [][C8_Repeats => C8_SameUpToTies(req.ep, resp, resp')]_vars

\* C8 amended: for health, list_measurements, list_stations and
\* list_stations_wkt a repeated call gets the same response up to ties, also
\* at a later instant; for measurements_timeseries it does when the rows inside
\* the look-back window are the same at both instants.
C8_RepeatSameResponseSameWindow ==
    [][(/\ C8_Repeats
        /\ req.ep = "measurements_timeseries" => C8_Window(req.at) = C8_Window(req'.at))
       => C8_SameUpToTies(req.ep, resp, resp')]_vars

\* a timeseries call repeated at a later instant whose window still holds the
\* same two rows
C8_Witness ==
    /\ Succeeded("measurements_timeseries")
    /\ repeat_of >= 0
    /\ repeat_of < req.at
    /\ C8_Window(repeat_of) = C8_Window(req.at)
    /\ Len(resp.body) = 2

(* ---- C9 ---- *)

C9_DatastoreEndpoints ==
    {"list_measurements", "measurements_timeseries", "list_stations", "list_stations_wkt"}

\* C9: after every request no connection is held: a request acquires at most
\* one connection and has released what it acquired when it returns or raises;
\* a request that the datastore served (success, empty result, 404) or that
\* failed in execute/fetch acquired exactly one.
C9_ConnectionReleasedOnEveryPath ==
    /\ held = 0
    /\ conn.acquired <= 1
    /\ conn.released = conn.acquired
    /\ (req.ep \in C9_DatastoreEndpoints /\ resp.status \in {200, 404}) => conn.acquired = 1

\* a datastore error during execute/fetch: the connection was acquired, the
\* request failed, nothing is held
C9_Witness ==
    /\ req.ep \in C9_DatastoreEndpoints
    /\ resp.status = 500
    /\ conn.acquired = 1
    /\ held = 0

====
